---- MODULE Spec2Model ----
(***************************************************************************)
(* Movie report pipeline: the TMDB client's retry loop                     *)
(* (src/src/tmdb_client.py), the row transformer and the thread-pool       *)
(* dispatcher (src/src/movie_report_pipeline.py) and the input reader and  *)
(* failure-log writer (src/src/report_io.py).                              *)
(***************************************************************************)
EXTENDS Integers, Sequences, FiniteSets, TLC

(* ------------------------------ bounds --------------------------------- *)
\* Identifiers appearing in input files are 1..MaxId.
MaxId == 2
\* Number of data rows of an input file.
MaxRows == 2
\* Largest max_retry_attempts a directly driven client is configured with.
MaxRetries == 3
\* Largest elapsed wall-clock time of a run, in clock ticks.
MaxElapsed == 2
\* Length of the failed_ids argument of a direct write_failed_ids call.
MaxFailed == 3
\* Length of the genres list of a document make_movie_row is called with.
MaxGenres == 3
\* Lines after the header of a file the reader is called with directly.
MaxLines == 4

(* ------------------------- program constants --------------------------- *)
DefaultMaxRetryAttempts == 3
DefaultInitialBackoff == 1
\* Upper end of random.uniform(0, 0.5), in hundredths of a second.
JitterMax == 50
MaxWorkers == 10
RETRYABLE_STATUS == {429, 500, 502, 503, 504}

(* --------------------------- Python values ----------------------------- *)
\* Values are tagged records so that values of different Python types can
\* be compared.
None == [t |-> "None"]
Missing == [t |-> "missing"]            \* a key that is not in a dict
Str(s) == [t |-> "str", v |-> s]
Num(n) == [t |-> "num", v |-> n]
List(s) == [t |-> "list", v |-> s]
Genre(name) == [t |-> "dict", name |-> name]      \* {"id": ..., "name": name}
Doc(title, vote, genres) ==
    [t |-> "dict", title |-> title, vote_average |-> vote, genres |-> genres]
Raised(type) == [t |-> "exception", type |-> type]

IsRaised(v) == v.t = "exception"

\* dict.get(key, default) for the keys the program reads.
Get(d, key, default) ==
    LET v == IF key = "title" THEN d.title
             ELSE IF key = "vote_average" THEN d.vote_average
             ELSE IF key = "genres" THEN d.genres
             ELSE d.name
    IN IF v = Missing THEN default ELSE v

\* Python truthiness (bool(v)).
Truthy(v) ==
    IF v.t = "None" \/ v.t = "missing" THEN FALSE
    ELSE IF v.t = "str" THEN v.v # ""
    ELSE IF v.t = "num" THEN v.v # 0
    ELSE IF v.t = "list" THEN v.v # <<>>
    ELSE IF v.t = "dict" /\ "title" \in DOMAIN v
         THEN ~(v.title = Missing /\ v.vote_average = Missing /\ v.genres = Missing)
    ELSE TRUE       \* genre entries carry an "id" key, a MovieRow is an object

\* The strings that occur as genre names, in str comparison (code point)
\* order, and str.strip() on them.
StrOrder == <<" Action ", "Action", "Adventure", "Drama", "action">>
Rank(s) == CHOOSE i \in 1..Len(StrOrder) : StrOrder[i] = s
StrLess(a, b) == Rank(a) < Rank(b)
Strip(s) == IF s = " Action " THEN "Action" ELSE s

\* str(v)
PyStr(v) ==
    IF v.t = "str" THEN v.v
    ELSE IF v.t = "num" THEN ToString(v.v)
    ELSE IF v.t = "None" THEN "None"
    ELSE "<object>"

\* Mutant: the genre names are left in the order of the document.
SortStrings_unsorted(s) == s

\* list.sort() on a list of strings (stable insertion into a sorted prefix).
RECURSIVE InsertStr(_, _)
InsertStr(s, x) ==
    IF s = <<>> THEN <<x>>
    ELSE IF StrLess(x, Head(s)) THEN <<x>> \o s
    ELSE <<Head(s)>> \o InsertStr(Tail(s), x)

RECURSIVE SortStrings(_)
SortStrings(s) ==
    IF s = <<>> THEN <<>>
    ELSE InsertStr(SortStrings(SubSeq(s, 1, Len(s) - 1)), s[Len(s)])

Contains(s, x) == \E i \in 1..Len(s) : s[i] = x

(* ----------------------------- schemas.py ------------------------------ *)
MovieRow(id, title, vote_average, genres, is_action) ==
    [t |-> "MovieRow", id |-> id, title |-> title, vote_average |-> vote_average,
     genres |-> genres, is_action |-> is_action]

(* ------------------------ movie_report_pipeline ------------------------ *)
\* float(vote_average) if vote_average is not None else None, with
\* ValueError/TypeError mapped to None.  Numeric strings do not occur in the
\* modelled documents, so every str is a ValueError.
VoteNum(vote_average) ==
    IF vote_average.t = "num" THEN vote_average ELSE None

\* The list comprehension over raw_genres: entries that are dicts with a
\* truthy name contribute str(name).strip().
RECURSIVE GenreNames(_)
GenreNames(raw) ==
    IF raw = <<>> THEN <<>>
    ELSE LET g == Head(raw)
         IN (IF g.t = "dict" /\ Truthy(Get(g, "name", None))
             THEN <<Strip(PyStr(g.name))>> ELSE <<>>) \o GenreNames(Tail(raw))

\* Mutant: no guard for a missing record, so None.get raises.
make_movie_row_unguarded(movie_id, api_data) ==
    IF api_data = None THEN Raised("AttributeError")
    ELSE LET raw_genres == Get(api_data, "genres", List(<<>>))
         IN IF raw_genres.t \in {"None", "num"} THEN Raised("TypeError")
            ELSE LET genre_names ==
                         SortStrings(IF raw_genres.t = "list"
                                     THEN GenreNames(raw_genres.v) ELSE <<>>)
                 IN MovieRow(movie_id, PyStr(Get(api_data, "title", Str(""))),
                             VoteNum(Get(api_data, "vote_average", None)),
                             genre_names, Contains(genre_names, "Action"))

make_movie_row(movie_id, api_data) ==
    IF ~Truthy(api_data)
    THEN MovieRow(movie_id, "", None, <<>>, FALSE)
    ELSE LET title == PyStr(Get(api_data, "title", Str("")))
             vote_num == VoteNum(Get(api_data, "vote_average", None))
             raw_genres == Get(api_data, "genres", List(<<>>))
         IN \* iterating a value that is not iterable raises TypeError; a str
            \* iterates over characters, none of which is a dict
            IF raw_genres.t \in {"None", "num"} THEN Raised("TypeError")
            ELSE LET genre_names ==
                         SortStrings(IF raw_genres.t = "list"
                                     THEN GenreNames(raw_genres.v) ELSE <<>>)
                 IN MovieRow(movie_id, title, vote_num, genre_names,
                             Contains(genre_names, "Action"))

\* get_movie_data after fetch_movie_details returned api_data: the pair
\* (movie_row, movie_id), or the exception that escapes the task.
Returned(movie_row, movie_id) ==
    [t |-> "return", movie_row |-> movie_row, movie_id |-> movie_id]

\* Mutant: the record goes to make_movie_row whether or not there is one.
get_movie_data_result_always_transform(movie_id, api_data) ==
    LET movie_row == make_movie_row(movie_id, api_data)
    IN IF IsRaised(movie_row) THEN movie_row ELSE Returned(movie_row, movie_id)

get_movie_data_result(movie_id, api_data) ==
    IF ~Truthy(api_data) THEN Returned(None, movie_id)
    ELSE LET movie_row == make_movie_row(movie_id, api_data)
         IN IF IsRaised(movie_row) THEN movie_row ELSE Returned(movie_row, movie_id)

(* ------------------------------ report_io ------------------------------ *)
\* The cells of the ID column that occur in input files.
IdStrings == {ToString(i) : i \in 1..MaxId}
RawValues == IdStrings \cup {" ", "abc", "0"}

\* str.strip() on a cell, and int() on a stripped cell: the integer, or
\* ValueError.
StripCell(raw_value) ==
    IF raw_value = " " THEN ""
    ELSE IF raw_value = " 1 " THEN "1"
    ELSE raw_value
ParseInt(id_value) ==
    IF \E i \in 0..MaxId : ToString(i) = id_value
    THEN Num(CHOOSE i \in 0..MaxId : ToString(i) = id_value)
    ELSE IF id_value = "01" THEN Num(1)
    ELSE IF id_value = "-1" THEN Num(-1)
    ELSE Raised("ValueError")

\* An input file with the single column ID: whether it exists, whether its
\* header has an ID column, and the lines after the header.
CsvFile(rows) == [exists |-> TRUE, has_id |-> TRUE, rows |-> rows]
AbsentFile == [exists |-> FALSE, has_id |-> FALSE, rows |-> <<>>]
NoIdHeaderFile == [exists |-> TRUE, has_id |-> FALSE, rows |-> <<>>]
RowSeqs == UNION {[1..n -> RawValues] : n \in 0..MaxRows}
InputFiles == {CsvFile(r) : r \in RowSeqs} \cup {AbsentFile, NoIdHeaderFile}

Skip(raw_value, row_number, reason) ==
    [raw_value |-> raw_value, row_number |-> row_number, reason |-> reason]
ReadResult(ids, skipped) == [movie_ids |-> ids, skipped |-> skipped]

\* The rows csv.DictReader yields: it passes over lines that are empty.
RECURSIVE DictReaderRows(_)
DictReaderRows(lines) ==
    IF lines = <<>> THEN <<>>
    ELSE (IF Head(lines) = "" THEN <<>> ELSE <<Head(lines)>>)
         \o DictReaderRows(Tail(lines))

\* Mutant: an identifier seen before is accepted again.
read_row_no_dedup(acc, raw_value, row_num) ==
    LET id_value == StripCell(raw_value)
        movie_id == ParseInt(id_value)
    IN IF id_value = ""
       THEN ReadResult(acc.movie_ids, Append(acc.skipped, Skip(id_value, row_num, "blank")))
       ELSE IF IsRaised(movie_id)
       THEN ReadResult(acc.movie_ids,
                       Append(acc.skipped, Skip(id_value, row_num, "non-numeric")))
       ELSE IF movie_id.v <= 0
       THEN ReadResult(acc.movie_ids,
                       Append(acc.skipped, Skip(id_value, row_num, "non-positive")))
       ELSE ReadResult(Append(acc.movie_ids, movie_id.v), acc.skipped)

\* Mutant: a blank row is passed over without a skip record.
read_row_drop_blank(acc, raw_value, row_num) ==
    LET id_value == StripCell(raw_value)
        movie_id == ParseInt(id_value)
    IN IF id_value = ""
       THEN acc
       ELSE IF IsRaised(movie_id)
       THEN ReadResult(acc.movie_ids,
                       Append(acc.skipped, Skip(id_value, row_num, "non-numeric")))
       ELSE IF movie_id.v <= 0
       THEN ReadResult(acc.movie_ids,
                       Append(acc.skipped, Skip(id_value, row_num, "non-positive")))
       ELSE IF Contains(acc.movie_ids, movie_id.v)
       THEN ReadResult(acc.movie_ids,
                       Append(acc.skipped, Skip(id_value, row_num, "duplicate")))
       ELSE ReadResult(Append(acc.movie_ids, movie_id.v), acc.skipped)

\* The loop body of read_movie_ids_with_skips for the row at index i
\* (row_num = i + 1), given the result acc of the rows before it.
read_row(acc, raw_value, row_num) ==
    LET id_value == StripCell(raw_value)
        movie_id == ParseInt(id_value)
    IN IF id_value = ""
       THEN ReadResult(acc.movie_ids, Append(acc.skipped, Skip(id_value, row_num, "blank")))
       ELSE IF IsRaised(movie_id)
       THEN ReadResult(acc.movie_ids,
                       Append(acc.skipped, Skip(id_value, row_num, "non-numeric")))
       ELSE IF movie_id.v <= 0
       THEN ReadResult(acc.movie_ids,
                       Append(acc.skipped, Skip(id_value, row_num, "non-positive")))
       ELSE IF Contains(acc.movie_ids, movie_id.v)
       THEN ReadResult(acc.movie_ids,
                       Append(acc.skipped, Skip(id_value, row_num, "duplicate")))
       ELSE ReadResult(Append(acc.movie_ids, movie_id.v), acc.skipped)

RECURSIVE read_rows(_, _)
read_rows(rows, n) ==
    IF n = 0 THEN ReadResult(<<>>, <<>>)
    ELSE read_row(read_rows(rows, n - 1), rows[n], n + 1)

read_movie_ids_with_skips(file) ==
    IF ~file.exists THEN ReadResult(<<>>, <<>>)
    ELSE IF ~file.has_id THEN ReadResult(<<>>, <<>>)
    ELSE LET rows == DictReaderRows(file.rows)
         IN read_rows(rows, Len(rows))

\* Mutant: the list is returned as it came.
SortInts_unsorted(s) == s

\* Mutant: zero passes the check for non-positive identifiers.
read_movie_ids_row_accept_zero(movie_ids, raw_value) ==
    LET id_value == StripCell(raw_value)
        movie_id == ParseInt(id_value)
    IN IF id_value = "" THEN movie_ids
       ELSE IF IsRaised(movie_id) THEN movie_ids
       ELSE IF movie_id.v < 0 THEN movie_ids
       ELSE IF Contains(movie_ids, movie_id.v) THEN movie_ids
       ELSE Append(movie_ids, movie_id.v)

\* The loop body of read_movie_ids: blank, non-numeric, non-positive and
\* duplicate rows are passed over without a record.
read_movie_ids_row(movie_ids, raw_value) ==
    LET id_value == StripCell(raw_value)
        movie_id == ParseInt(id_value)
    IN IF id_value = "" THEN movie_ids
       ELSE IF IsRaised(movie_id) THEN movie_ids
       ELSE IF movie_id.v <= 0 THEN movie_ids
       ELSE IF Contains(movie_ids, movie_id.v) THEN movie_ids
       ELSE Append(movie_ids, movie_id.v)

RECURSIVE read_movie_ids_rows(_, _)
read_movie_ids_rows(rows, n) ==
    IF n = 0 THEN <<>>
    ELSE read_movie_ids_row(read_movie_ids_rows(rows, n - 1), rows[n])

read_movie_ids(file) ==
    IF ~file.exists THEN <<>>
    ELSE IF ~file.has_id THEN <<>>
    ELSE LET rows == DictReaderRows(file.rows)
         IN read_movie_ids_rows(rows, Len(rows))

\* sorted() on a list of integers.
RECURSIVE InsertInt(_, _)
InsertInt(s, x) ==
    IF s = <<>> THEN <<x>>
    ELSE IF x < Head(s) THEN <<x>> \o s
    ELSE <<Head(s)>> \o InsertInt(Tail(s), x)

RECURSIVE SortInts(_)
SortInts(s) ==
    IF s = <<>> THEN <<>>
    ELSE InsertInt(SortInts(SubSeq(s, 1, Len(s) - 1)), s[Len(s)])

\* Mutant: the rows are left in completion order.
SortRowsById_unsorted(s) == s

\* list.sort(key=lambda row: row.id) on a list of rows (stable).
RECURSIVE InsertRow(_, _)
InsertRow(s, r) ==
    IF s = <<>> THEN <<r>>
    ELSE IF r.id < Head(s).id THEN <<r>> \o s
    ELSE <<Head(s)>> \o InsertRow(Tail(s), r)

RECURSIVE SortRowsById(_)
SortRowsById(s) ==
    IF s = <<>> THEN <<>>
    ELSE InsertRow(SortRowsById(SubSeq(s, 1, Len(s) - 1)), s[Len(s)])

\* The rows csv.writer writes in write_failed_ids, each cell as the text
\* the csv module writes for it; NotWritten when the function returns
\* before opening the file.
NotWritten == [t |-> "not-written"]
CsvRows(rows) == [t |-> "csv", rows |-> rows]

RECURSIVE FailedRows(_)
FailedRows(sorted_ids) ==
    IF sorted_ids = <<>> THEN <<>>
    ELSE <<<<ToString(Head(sorted_ids)), "fetch-failed", "">>>>
         \o FailedRows(Tail(sorted_ids))

RECURSIVE SkipRows(_)
SkipRows(skipped) ==
    IF skipped = <<>> THEN <<>>
    ELSE <<<<Head(skipped).raw_value, Head(skipped).reason,
             ToString(Head(skipped).row_number)>>>>
         \o SkipRows(Tail(skipped))

\* Mutant: the fetch failures are written in the order of the argument.
write_failed_ids_unsorted(failed, skipped) ==
    IF failed = <<>> /\ skipped = <<>> THEN NotWritten
    ELSE CsvRows(<<<<"ID", "Reason", "RowNumber">>>>
                 \o FailedRows(failed)
                 \o SkipRows(skipped))

write_failed_ids(failed, skipped) ==
    IF failed = <<>> /\ skipped = <<>> THEN NotWritten
    ELSE CsvRows(<<<<"ID", "Reason", "RowNumber">>>>
                 \o FailedRows(SortInts(failed))
                 \o SkipRows(skipped))

(* ------------------------- run statistics (main) ----------------------- *)
Max(a, b) == IF a >= b THEN a ELSE b

\* Python true division a / b: the quotient as the fraction num/den, or
\* ZeroDivisionError.
Float(num, den) == [t |-> "float", num |-> num, den |-> den]
TrueDiv(a, b) == IF b = 0 THEN Raised("ZeroDivisionError") ELSE Float(a, b)

\* Mutant: the guard admits a zero elapsed time.
req_per_sec_guard_ge(total_attempted, elapsed_seconds) ==
    IF elapsed_seconds >= 0 THEN TrueDiv(total_attempted, elapsed_seconds)
    ELSE Float(0, 1)

req_per_sec(total_attempted, elapsed_seconds) ==
    IF elapsed_seconds > 0 THEN TrueDiv(total_attempted, elapsed_seconds)
    ELSE Float(0, 1)

(* ------------------------------- state --------------------------------- *)
VARIABLES
    pc,                 \* position of main(), or "direct" when a task is driven directly
    max_retry_attempts, \* TMDBClient.max_retry_attempts
    movie_ids,          \* main: identifiers returned by the reader
    skipped_rows,       \* main: skip records returned by the reader
    movie_rows,         \* main: rows collected so far
    failed_ids,         \* main: failed identifiers collected so far
    collected,          \* main: identifiers whose future as_completed has yielded
    excel_rows,         \* rows argument of the write_excel call, NotCalled before
    dlq_file,           \* rows written to the dead letter queue, NotCalled before
    summary,            \* the "Processing complete" log record, NotCalled before
    uncaught,           \* the exception that propagated out of main(), None if none
    task_state,         \* per identifier: "none", "queued", "running", "done"
    current_attempt,    \* per identifier: loop variable of fetch_movie_details
    requests,           \* per identifier: number of http_session.get calls
    waits,              \* per identifier: exponential_delay of each backoff sleep
    transients,         \* per identifier: number of attempts with a transient outcome
    last_outcome,       \* per identifier: class (and 200 body) of the latest attempt
    api_data,           \* per identifier: value returned by fetch_movie_details
    task_result,        \* per identifier: outcome of the get_movie_data future
    time_sleep,         \* time.sleep: the real one, or a mock recording its calls
    fs,                 \* write_excel: contents of output_path and of temp_path
    output_before,      \* write_excel: content of output_path when it was called
    excel_outcome,      \* write_excel: how far the call got, "none" before
    dlq_before,         \* write_failed_ids: content of output_path when it was called
    dlq_outcome,        \* write_failed_ids: how the write ended, "none" before
    call_args,          \* arguments of a function called directly, NotCalled if none
    call_result         \* what that call returned, NotCalled before it returns

main_vars == <<pc, movie_ids, skipped_rows, movie_rows, failed_ids, collected,
               excel_rows, dlq_file, summary, uncaught>>
task_vars == <<task_state, current_attempt, requests, waits, transients,
               last_outcome, api_data, task_result>>
excel_vars == <<fs, output_before, excel_outcome>>
dlq_vars == <<dlq_before, dlq_outcome>>
direct_vars == <<call_args, call_result>>
vars == <<main_vars, max_retry_attempts, task_vars, time_sleep, excel_vars, dlq_vars,
          direct_vars>>

Ids == 1..MaxId
NotCalled == [t |-> "not-called"]
ExcelCall(rows) == [t |-> "write_excel", rows |-> rows]
Pending == [t |-> "pending"]

(* ----------------------------- tmdb_client ----------------------------- *)
\* Documents a 200 response can carry.
EmptyDoc == Doc(Missing, Missing, Missing)
TitleOnlyDoc == Doc(Str("Movie with Missing Info"), Missing, Missing)
FullDoc == Doc(Str("Avengers"), Num(82),
               List(<<Genre(Str("Adventure")), Genre(Str("Action"))>>))
NullGenresDoc == Doc(Str("Untitled"), Str("n/a"), None)
Bodies == {EmptyDoc, TitleOnlyDoc, FullDoc, NullGenresDoc}

\* What one http_session.get call can produce: a response with a status
\* code (a 200 response has a JSON-decodable body), or a RequestException.
HttpResponse(status, body) == [kind |-> "http", status |-> status, body |-> body]
RequestException == [kind |-> "RequestException", status |-> 0, body |-> None]
Responses ==
    {HttpResponse(200, b) : b \in Bodies}
    \cup {HttpResponse(s, None) : s \in {404, 403} \cup RETRYABLE_STATUS}
    \cup {RequestException}

\* Class of an attempt's outcome.
OutcomeClass(resp) ==
    IF resp.kind = "RequestException" THEN "transport"
    ELSE IF resp.status = 200 THEN "ok"
    ELSE IF resp.status = 404 THEN "not_found"
    ELSE IF resp.status \in RETRYABLE_STATUS THEN "retryable"
    ELSE "unrecoverable"

TransientClasses == {"retryable", "transport"}
DefinitiveClasses == {"not_found", "unrecoverable"}

\* _wait_with_exponential_backoff: the base delay in seconds, the values
\* random.uniform(0, 0.5) is sampled at, and the argument of time.sleep.
\* Jitter and total are in hundredths of a second.
\* Mutant: the base delay grows linearly.
exponential_delay_linear(initial_backoff_seconds, attempt_number) ==
    initial_backoff_seconds * (attempt_number + 1)

exponential_delay(initial_backoff_seconds, attempt_number) ==
    initial_backoff_seconds * (2 ^ attempt_number)

JitterDelays == {0, JitterMax \div 2, JitterMax}

total_wait_time(initial_backoff_seconds, attempt_number, jitter_delay) ==
    100 * exponential_delay(initial_backoff_seconds, attempt_number) + jitter_delay

\* time.sleep itself, and time.sleep patched by a mock that records the
\* argument of every call.
RealSleep == [t |-> "real", calls |-> <<>>]
MockSleep(calls) == [t |-> "mock", calls |-> calls]

\* One iteration of the loop of fetch_movie_details, for loop variable
\* current_attempt and the outcome resp of its request: whether the call
\* returns (and what), and whether the iteration slept.  Leaving the loop
\* (range exhausted, or break) returns None at line 64.
Return(value, slept) == [returns |-> TRUE, value |-> value, slept |-> slept]
Continue == [returns |-> FALSE, value |-> None, slept |-> TRUE]

\* Mutant: the transport-failure branch gives up one attempt early.
fetch_iteration_early_break(N, attempt, resp) ==
    IF resp.kind = "http"
    THEN IF resp.status = 200 THEN Return(resp.body, FALSE)
         ELSE IF resp.status = 404 THEN Return(None, FALSE)
         ELSE IF resp.status \in RETRYABLE_STATUS
              THEN IF attempt + 1 <= N THEN Continue ELSE Return(None, TRUE)
         ELSE Return(None, FALSE)
    ELSE IF attempt >= N - 1 THEN Return(None, FALSE)
         ELSE Continue

\* Mutant: every status other than 200 and 404 is retried.
fetch_iteration_retry_any_status(N, attempt, resp) ==
    IF resp.kind = "http"
    THEN IF resp.status = 200 THEN Return(resp.body, FALSE)
         ELSE IF resp.status = 404 THEN Return(None, FALSE)
         ELSE IF attempt + 1 <= N THEN Continue ELSE Return(None, TRUE)
    ELSE IF attempt = N THEN Return(None, FALSE)
         ELSE Continue

\* Mutant: a 200 response is only returned when its body is truthy.
fetch_iteration_truthy_body(N, attempt, resp) ==
    IF resp.kind = "http"
    THEN IF resp.status = 200 /\ Truthy(resp.body) THEN Return(resp.body, FALSE)
         ELSE IF resp.status = 404 THEN Return(None, FALSE)
         ELSE IF resp.status \in RETRYABLE_STATUS
              THEN IF attempt + 1 <= N THEN Continue ELSE Return(None, TRUE)
         ELSE Return(None, FALSE)
    ELSE IF attempt = N THEN Return(None, FALSE)
         ELSE Continue

fetch_iteration(N, attempt, resp) ==
    IF resp.kind = "http"
    THEN IF resp.status = 200 THEN Return(resp.body, FALSE)
         ELSE IF resp.status = 404 THEN Return(None, FALSE)
         ELSE IF resp.status \in RETRYABLE_STATUS
              THEN \* sleeps, then continue; the loop ends after attempt N
                   IF attempt + 1 <= N THEN Continue ELSE Return(None, TRUE)
         ELSE Return(None, FALSE)
    ELSE IF attempt = N THEN Return(None, FALSE)      \* break
         ELSE Continue

\* One attempt of the task of identifier id: a worker thread runs
\* get_movie_data up to and including one request and what follows it up to
\* the next request or the end of the task.
Attempt(id) ==
    /\ task_state[id] \in {"queued", "running"}
    /\ task_state[id] = "queued" =>
           Cardinality({i \in Ids : task_state[i] = "running"}) < MaxWorkers
    /\ current_attempt[id] <= max_retry_attempts
    /\ \E resp \in Responses :
         LET step == fetch_iteration(max_retry_attempts, current_attempt[id], resp)
         IN /\ requests' = [requests EXCEPT ![id] = @ + 1]
            /\ IF step.slept /\ time_sleep.t = "mock"
               THEN \E jitter_delay \in JitterDelays :
                      time_sleep' = MockSleep(Append(time_sleep.calls,
                          total_wait_time(DefaultInitialBackoff,
                                          current_attempt[id], jitter_delay)))
               ELSE UNCHANGED time_sleep
            /\ last_outcome' = [last_outcome EXCEPT ![id] =
                   [class |-> OutcomeClass(resp), body |-> resp.body]]
            /\ transients' = [transients EXCEPT ![id] =
                   IF OutcomeClass(resp) \in TransientClasses THEN @ + 1 ELSE @]
            /\ waits' = [waits EXCEPT ![id] =
                   IF step.slept
                   THEN Append(@, exponential_delay(DefaultInitialBackoff,
                                                    current_attempt[id]))
                   ELSE @]
            /\ IF step.returns
               THEN /\ api_data' = [api_data EXCEPT ![id] = step.value]
                    /\ task_result' = [task_result EXCEPT ![id] =
                           get_movie_data_result(id, step.value)]
                    /\ task_state' = [task_state EXCEPT ![id] = "done"]
                    /\ UNCHANGED current_attempt
               ELSE /\ current_attempt' = [current_attempt EXCEPT ![id] = @ + 1]
                    /\ task_state' = [task_state EXCEPT ![id] = "running"]
                    /\ UNCHANGED <<api_data, task_result>>
    /\ UNCHANGED <<main_vars, max_retry_attempts, excel_vars, direct_vars, dlq_vars>>

TaskInit(submitted) ==
    /\ task_state = [i \in Ids |-> IF i \in submitted THEN "queued" ELSE "none"]
    /\ current_attempt = [i \in Ids |-> 0]
    /\ requests = [i \in Ids |-> 0]
    /\ waits = [i \in Ids |-> <<>>]
    /\ transients = [i \in Ids |-> 0]
    /\ last_outcome = [i \in Ids |-> [class |-> "none", body |-> None]]
    /\ api_data = [i \in Ids |-> Pending]
    /\ task_result = [i \in Ids |-> Pending]

\* No write_excel call and no direct call yet.
Unobserved == [t |-> "unobserved"]

ExcelIdle ==
    /\ fs = [output |-> Unobserved, temp |-> Unobserved]
    /\ output_before = Unobserved
    /\ excel_outcome = "none"

DlqIdle ==
    /\ dlq_before = Unobserved
    /\ dlq_outcome = "none"

AuxIdle ==
    /\ ExcelIdle
    /\ DlqIdle
    /\ call_args = NotCalled
    /\ call_result = NotCalled

MainIdle ==
    /\ movie_ids = <<>>
    /\ skipped_rows = <<>>
    /\ movie_rows = <<>>
    /\ failed_ids = <<>>
    /\ collected = {}
    /\ excel_rows = NotCalled
    /\ dlq_file = NotCalled
    /\ summary = NotCalled
    /\ uncaught = None

\* A client configured with N retries whose get_movie_data is called
\* directly for one identifier.
InitFetch ==
    /\ pc = "direct"
    /\ max_retry_attempts \in 0..MaxRetries
    /\ MainIdle
    /\ AuxIdle
    /\ time_sleep = MockSleep(<<>>)
    /\ \E id \in Ids : TaskInit({id})

NextFetch == \E id \in Ids : Attempt(id)

SpecFetch == InitFetch /\ [][NextFetch]_vars

(* --------------------------------- main -------------------------------- *)
SeqToSet(s) == {s[i] : i \in 1..Len(s)}

\* Config() and TMDBClient(): without TMDB_API_KEY the process exits with
\* status 1.
Configure ==
    /\ pc = "config"
    /\ \E api_key_set \in BOOLEAN :
         pc' = IF api_key_set THEN "read" ELSE "exit"
    /\ UNCHANGED <<movie_ids, skipped_rows, movie_rows, failed_ids, collected,
                   excel_rows, dlq_file, summary, uncaught, max_retry_attempts,
                   task_vars,
                   time_sleep, excel_vars, direct_vars, dlq_vars>>

\* Reading the input, the early return on an empty identifier list, and the
\* submission of one get_movie_data task per identifier.
ReadAndSubmit ==
    /\ pc = "read"
    /\ \E file \in InputFiles :
         LET r == read_movie_ids_with_skips(file)
         IN /\ movie_ids' = r.movie_ids
            /\ skipped_rows' = r.skipped
            /\ IF r.movie_ids = <<>>
               THEN /\ pc' = "returned"
                    /\ UNCHANGED task_state
               ELSE /\ pc' = "collecting"
                    /\ task_state' = [i \in Ids |->
                           IF i \in SeqToSet(r.movie_ids) THEN "queued" ELSE "none"]
    /\ UNCHANGED <<movie_rows, failed_ids, collected, excel_rows, dlq_file, summary,
                   uncaught, max_retry_attempts, current_attempt, requests, waits, transients,
                   last_outcome, api_data, task_result,
                   time_sleep, excel_vars, direct_vars, dlq_vars>>

\* One iteration of the as_completed loop: future.result() of a finished
\* task re-raises the task's exception, which leaves main(); otherwise the
\* result goes to movie_rows or failed_ids.  The loop ends with the last
\* future.
Collect(id) ==
    /\ pc = "collecting"
    /\ task_state[id] = "done"
    /\ id \notin collected
    /\ LET res == task_result[id]
       IN IF IsRaised(res)
          THEN /\ pc' = "crashed"
               /\ uncaught' = res
               /\ UNCHANGED <<movie_rows, failed_ids, collected>>
          ELSE /\ collected' = collected \cup {id}
               /\ UNCHANGED uncaught
               /\ IF Truthy(res.movie_row)
                  THEN /\ movie_rows' = Append(movie_rows, res.movie_row)
                       /\ UNCHANGED failed_ids
                  ELSE /\ failed_ids' = Append(failed_ids, res.movie_id)
                       /\ UNCHANGED movie_rows
               /\ pc' = IF collected' = SeqToSet(movie_ids)
                        THEN "write_excel" ELSE "collecting"
    /\ UNCHANGED <<movie_ids, skipped_rows, excel_rows, dlq_file, summary,
                   max_retry_attempts, task_vars,
                   time_sleep, excel_vars, direct_vars, dlq_vars>>

(* ---------------------- report_io.write_excel ------------------------- *)
\* Contents of a path: nothing, the report of an earlier run, or a workbook
\* of the rows of this call, completely saved or cut short by an error.
Absent == [t |-> "absent"]
EarlierReport == [t |-> "earlier-report"]
Workbook(rows, complete) == [t |-> "workbook", rows |-> rows, complete |-> complete]
FileSystem(output, temp) == [output |-> output, temp |-> temp]

\* workbook.save(temp_path): it succeeds, or raises one of the handled
\* errors before temp_path exists or after part of it was written.
SaveOutcomes == {"saved", "error-before-create", "error-partway"}
workbook_save(files, rows, outcome) ==
    IF outcome = "saved" THEN [files EXCEPT !.temp = Workbook(rows, TRUE)]
    ELSE IF outcome = "error-partway" THEN [files EXCEPT !.temp = Workbook(rows, FALSE)]
    ELSE files

\* os.replace(temp_path, output_path): an atomic rename, or an OSError that
\* leaves both paths alone.
ReplaceOutcomes == {"replaced", "error"}
os_replace(files, outcome) ==
    IF outcome = "replaced" THEN FileSystem(files.temp, Absent) ELSE files

\* Mutant: the handler logs the error and leaves temp_path behind.
write_excel_except_keep_temp(files) == files

\* Lines 153-156: the handler of PermissionError, IOError and
\* IllegalCharacterError removes temp_path if it exists.
write_excel_except(files) ==
    IF files.temp # Absent THEN [files EXCEPT !.temp = Absent] ELSE files

\* Lines 107-110 and write_excel up to workbook.save: sort the rows, hand
\* them to write_excel, which saves the workbook to temp_path.  The content
\* of output_path is whatever an earlier run left there.
WriteExcel ==
    /\ pc = "write_excel"
    /\ IF movie_rows # <<>>
       THEN /\ movie_rows' = SortRowsById(movie_rows)
            /\ excel_rows' = ExcelCall(movie_rows')
            /\ \E before \in {Absent, EarlierReport}, outcome \in SaveOutcomes :
                 LET files == workbook_save(FileSystem(before, Absent),
                                            movie_rows', outcome)
                 IN /\ output_before' = before
                    /\ IF outcome = "saved"
                       THEN /\ fs' = files
                            /\ excel_outcome' = "saved"
                            /\ pc' = "excel_replace"
                       ELSE /\ fs' = write_excel_except(files)
                            /\ excel_outcome' = "save-failed"
                            /\ pc' = "write_failed"
       ELSE /\ pc' = "write_failed"
            /\ UNCHANGED <<movie_rows, excel_rows, excel_vars>>
    /\ UNCHANGED <<movie_ids, skipped_rows, failed_ids, collected, dlq_file, summary,
                   uncaught, max_retry_attempts, task_vars, time_sleep, direct_vars, dlq_vars>>

\* write_excel from os.replace on: publish temp_path as output_path, or
\* handle the error.
ExcelReplace ==
    /\ pc = "excel_replace"
    /\ \E outcome \in ReplaceOutcomes :
         LET files == os_replace(fs, outcome)
         IN IF outcome = "replaced"
            THEN fs' = files /\ excel_outcome' = "published"
            ELSE fs' = write_excel_except(files) /\ excel_outcome' = "replace-failed"
    /\ pc' = "write_failed"
    /\ UNCHANGED <<movie_ids, skipped_rows, movie_rows, failed_ids, collected,
                   excel_rows, dlq_file, summary, uncaught, max_retry_attempts,
                   task_vars, time_sleep, output_before, direct_vars, dlq_vars>>

\* Lines 112-117: the dead letter queue.  In a run of main() the write is
\* taken to succeed; its failures are followed where write_failed_ids is
\* called directly.
WriteFailed ==
    /\ pc = "write_failed"
    /\ IF Len(failed_ids) + Len(skipped_rows) # 0
       THEN /\ dlq_file' = write_failed_ids(failed_ids, skipped_rows)
            /\ dlq_outcome' = "written"
       ELSE UNCHANGED <<dlq_file, dlq_outcome>>
    /\ pc' = "summary"
    /\ UNCHANGED <<movie_ids, skipped_rows, movie_rows, failed_ids, collected,
                   excel_rows, summary, uncaught, max_retry_attempts, task_vars,
                   time_sleep, excel_vars, direct_vars, dlq_before>>

\* Lines 119-128: the run statistics.  perf_counter is monotonic: the
\* clock advanced by some dt >= 0 since start_time.
Summarize ==
    /\ pc = "summary"
    /\ \E dt \in 0..MaxElapsed :
         LET elapsed_seconds == Max(dt, 0)
             rate == req_per_sec(Len(movie_ids), elapsed_seconds)
         IN IF IsRaised(rate)
            THEN pc' = "crashed" /\ uncaught' = rate /\ UNCHANGED summary
            ELSE /\ pc' = "done"
                 /\ UNCHANGED uncaught
                 /\ summary' = [t |-> "summary",
                                processed |-> Len(movie_rows),
                                failed |-> Len(failed_ids),
                                skipped |-> Len(skipped_rows),
                                total_attempted |-> Len(movie_ids),
                                elapsed |-> elapsed_seconds,
                                rate |-> rate]
    /\ UNCHANGED <<movie_ids, skipped_rows, movie_rows, failed_ids, collected,
                   excel_rows, dlq_file, max_retry_attempts, task_vars,
                   time_sleep, excel_vars, direct_vars, dlq_vars>>

Init ==
    /\ pc = "config"
    /\ max_retry_attempts = DefaultMaxRetryAttempts
    /\ MainIdle
    /\ AuxIdle
    /\ time_sleep = RealSleep
    /\ TaskInit({})

Next ==
    \/ Configure
    \/ ReadAndSubmit
    \/ \E id \in Ids : Attempt(id)
    \/ \E id \in Ids : Collect(id)
    \/ WriteExcel
    \/ ExcelReplace
    \/ WriteFailed
    \/ Summarize

Spec == Init /\ [][Next]_vars

\* Fair scheduling: the pool has a worker for every queued task and every
\* request ends (response, error or the 10 s timeout), so an enabled attempt
\* is eventually made; as_completed yields every finished future; main()
\* takes its own next step.
SpecFair ==
    /\ Spec
    /\ \A id \in Ids : WF_vars(Attempt(id)) /\ WF_vars(Collect(id))
    /\ WF_vars(Configure \/ ReadAndSubmit \/ WriteExcel \/ ExcelReplace
               \/ WriteFailed \/ Summarize)

(* ------------------- write_failed_ids called directly ------------------ *)
\* Any list of identifiers as failed_ids, any skip list the reader can
\* produce as skipped_rows.
FailedIdLists == UNION {[1..n -> Ids] : n \in 0..MaxFailed}

\* Contents of output_path besides a complete log: the log of an earlier
\* run, and the rows that reached the file before an error.
EarlierLog == [t |-> "earlier-log"]
PartialCsv(rows) == [t |-> "partial-csv", rows |-> rows]

\* How the with-block of write_failed_ids can end: the log is written,
\* open() raises OSError, or a write raises OSError after the file was
\* truncated and some of the rows were flushed to it.
WriteOutcome(kind, flushed) == [kind |-> kind, flushed |-> flushed]
WriteOutcomes(failed, skipped) ==
    IF failed = <<>> /\ skipped = <<>>
    THEN {WriteOutcome("returned-early", 0)}
    ELSE {WriteOutcome("written", 0), WriteOutcome("open-error", 0)}
         \cup {WriteOutcome("write-error", n) : n \in 0..(Len(failed) + Len(skipped))}

\* The content of output_path after write_failed_ids: open(output_path, "w")
\* writes to the path itself, and the handler of OSError only logs.
write_failed_ids_to(before, failed, skipped, outcome) ==
    LET log == write_failed_ids(failed, skipped)
    IN IF outcome.kind \in {"returned-early", "written"} THEN log
       ELSE IF outcome.kind = "open-error" THEN before
       ELSE PartialCsv(SubSeq(log.rows, 1, outcome.flushed))

InitFailLog ==
    /\ pc = "direct"
    /\ max_retry_attempts = DefaultMaxRetryAttempts
    /\ movie_ids = <<>>
    /\ movie_rows = <<>>
    /\ collected = {}
    /\ excel_rows = NotCalled
    /\ dlq_file = NotCalled
    /\ summary = NotCalled
    /\ uncaught = None
    /\ failed_ids \in FailedIdLists
    /\ \E file \in InputFiles : skipped_rows = read_movie_ids_with_skips(file).skipped
    /\ ExcelIdle
    /\ call_args = NotCalled
    /\ call_result = NotCalled
    /\ dlq_before \in {Absent, EarlierLog}
    /\ dlq_outcome = "none"
    /\ time_sleep = RealSleep
    /\ TaskInit({})

CallWriteFailedIds ==
    /\ pc = "direct"
    /\ dlq_file = NotCalled
    /\ \E outcome \in WriteOutcomes(failed_ids, skipped_rows) :
         /\ dlq_file' = write_failed_ids_to(dlq_before, failed_ids, skipped_rows,
                                            outcome)
         /\ dlq_outcome' = outcome.kind
    /\ UNCHANGED <<pc, movie_ids, skipped_rows, movie_rows, failed_ids, collected,
                   excel_rows, summary, uncaught, max_retry_attempts, task_vars,
                   time_sleep, excel_vars, direct_vars, dlq_before>>

NextFailLog == CallWriteFailedIds

SpecFailLog == InitFailLog /\ [][NextFailLog]_vars

(* -------------------- make_movie_row called directly ------------------- *)
\* Entries of a genres list: well-formed genre objects, objects whose name
\* is missing, empty or null, and entries that are not objects.
GenreEntries ==
    {Genre(Str(n)) : n \in {"Action", "Adventure", "Drama", " Action ", "action", ""}}
    \cup {Genre(Missing), Genre(None), Str("Action"), None}
GenreLists == UNION {[1..n -> GenreEntries] : n \in 0..MaxGenres}

\* The records make_movie_row is called with: no record, and documents
\* with and without each field, genres being a list or not.
RowDocs ==
    {Doc(title, vote, genres) :
        title \in {Missing, Str("Avengers")},
        vote \in {Missing, Num(82), Str("n/a")},
        genres \in {Missing, None, Num(5)} \cup {List(l) : l \in GenreLists}}
RowCall(movie_id, record) ==
    [t |-> "make_movie_row", movie_id |-> movie_id, api_data |-> record]

InitRow ==
    /\ pc = "direct"
    /\ max_retry_attempts = DefaultMaxRetryAttempts
    /\ MainIdle
    /\ ExcelIdle
    /\ DlqIdle
    /\ time_sleep = RealSleep
    /\ TaskInit({})
    /\ call_args \in {RowCall(id, d) : id \in Ids, d \in RowDocs \cup {None}}
    /\ call_result = NotCalled

CallMakeMovieRow ==
    /\ call_args.t = "make_movie_row"
    /\ call_result = NotCalled
    /\ call_result' = make_movie_row(call_args.movie_id, call_args.api_data)
    /\ UNCHANGED <<main_vars, max_retry_attempts, task_vars, time_sleep,
                   excel_vars, dlq_vars, call_args>>

NextRow == CallMakeMovieRow

SpecRow == InitRow /\ [][NextRow]_vars

(* -------------- read_movie_ids_with_skips called directly -------------- *)
\* Lines of a one-column file: identifiers, padded and zero-prefixed
\* spellings of 1, text, zero, a negative number, white space, nothing.
ReaderLines == RawValues \cup {"", "-1", " 1 ", "01"}
ReaderFiles ==
    {CsvFile(l) : l \in UNION {[1..n -> ReaderLines] : n \in 0..MaxLines}}
    \cup {AbsentFile, NoIdHeaderFile}
ReaderCall(file) == [t |-> "read_movie_ids_with_skips", file |-> file]
QuietReaderCall(file) == [t |-> "read_movie_ids", file |-> file]

InitReader ==
    /\ pc = "direct"
    /\ max_retry_attempts = DefaultMaxRetryAttempts
    /\ MainIdle
    /\ ExcelIdle
    /\ DlqIdle
    /\ time_sleep = RealSleep
    /\ TaskInit({})
    /\ call_args \in {ReaderCall(f) : f \in ReaderFiles}
                     \cup {QuietReaderCall(f) : f \in ReaderFiles}
    /\ call_result = NotCalled

CallReader ==
    /\ call_args.t = "read_movie_ids_with_skips"
    /\ call_result = NotCalled
    /\ call_result' = read_movie_ids_with_skips(call_args.file)
    /\ UNCHANGED <<main_vars, max_retry_attempts, task_vars, time_sleep,
                   excel_vars, dlq_vars, call_args>>

CallReadMovieIds ==
    /\ call_args.t = "read_movie_ids"
    /\ call_result = NotCalled
    /\ call_result' = List(read_movie_ids(call_args.file))
    /\ UNCHANGED <<main_vars, max_retry_attempts, task_vars, time_sleep,
                   excel_vars, dlq_vars, call_args>>

NextReader == CallReader \/ CallReadMovieIds

SpecReader == InitReader /\ [][NextReader]_vars

(* ============================== properties ============================== *)
Done(id) == task_state[id] = "done"
AllTransient(id) == requests[id] > 0 /\ transients[id] = requests[id]

\* C1: with max_retry_attempts = N, a fetch all of whose attempts end in a
\* transient outcome (retryable status or RequestException) issues exactly
\* N + 1 requests and then returns None without raising: it has returned
\* exactly when it has made N + 1 requests.
C1_TransientExhaustion ==
    \A id \in Ids : AllTransient(id) =>
        /\ requests[id] <= max_retry_attempts + 1
        /\ Done(id) <=> requests[id] = max_retry_attempts + 1
        /\ Done(id) => /\ api_data[id] = None
                       /\ task_result[id] = Returned(None, id)

C1_Witness ==
    \E id \in Ids :
        /\ Done(id) /\ AllTransient(id)
        /\ max_retry_attempts >= 2
        /\ requests[id] = max_retry_attempts + 1
        /\ last_outcome[id].class = "transport"

\* C2: an attempt that receives 404, or a status outside 200 and the
\* retryable ones, makes the fetch return None at once: the attempt does not
\* sleep, it is the only request when it is the first attempt, and no
\* request or sleep follows it.
C2_DefinitiveStatusReturnsAtOnce ==
    [][\A id \in Ids :
         /\ (requests'[id] # requests[id]
               /\ last_outcome'[id].class \in DefinitiveClasses) =>
                /\ task_state'[id] = "done"
                /\ api_data'[id] = None
                /\ waits'[id] = waits[id]
                /\ requests[id] = 0 => requests'[id] = 1
         /\ (Done(id) /\ last_outcome[id].class \in DefinitiveClasses) =>
                /\ requests'[id] = requests[id]
                /\ waits'[id] = waits[id]]_vars

C2_Witness ==
    \E id \in Ids :
        /\ Done(id)
        /\ last_outcome[id].class = "unrecoverable"
        /\ requests[id] = 1
        /\ api_data[id] = None

\* C3: when attempt j + 1 receives 200 after j transient attempts
\* (0 <= j <= N), the fetch returns that response's body after exactly
\* j + 1 requests, and issues no request afterwards.
C3_SuccessReturnsRecord ==
    [][\A id \in Ids :
         /\ (requests'[id] # requests[id] /\ last_outcome'[id].class = "ok") =>
                /\ task_state'[id] = "done"
                /\ api_data'[id] = last_outcome'[id].body
                /\ requests'[id] = transients[id] + 1
                /\ requests'[id] <= max_retry_attempts + 1
         /\ (Done(id) /\ last_outcome[id].class = "ok") =>
                requests'[id] = requests[id]]_vars

C3_Witness ==
    \E id \in Ids :
        /\ Done(id)
        /\ last_outcome[id].class = "ok"
        /\ max_retry_attempts >= 2
        /\ requests[id] = max_retry_attempts + 1
        /\ api_data[id] = FullDoc

\* C4: the rows handed to write_excel are strictly ascending by id,
\* whatever the order in which the tasks were collected.
C4_RowsSortedForWriter ==
    excel_rows.t = "write_excel" =>
        \A i, j \in 1..Len(excel_rows.rows) :
            i < j => excel_rows.rows[i].id < excel_rows.rows[j].id

C4_Witness ==
    /\ excel_rows.t = "write_excel"
    /\ Len(excel_rows.rows) >= 2
    /\ movie_ids[1] > movie_ids[2]

RowCount(id) == Cardinality({i \in 1..Len(movie_rows) : movie_rows[i].id = id})
InFailed(id) == \E i \in 1..Len(failed_ids) : failed_ids[i] = id

\* C5: every identifier whose fetch returned a record (a 200 document, be
\* it empty or malformed) gets exactly one row and is not in failed_ids:
\* its task does not raise, and once collected it has one row.
C5_RecordAlwaysYieldsRow ==
    \A id \in Ids : (Done(id) /\ api_data[id].t = "dict") =>
        /\ ~IsRaised(task_result[id])
        /\ id \in collected => RowCount(id) = 1 /\ ~InFailed(id)

\* C6: once all tasks are collected, rows and failed_ids partition the
\* submitted identifiers without duplicates, rows holding exactly those
\* whose fetch returned a record and failed_ids those whose fetch returned
\* None.
C6_PartitionByFetchOutcome ==
    pc \in {"write_excel", "write_failed", "summary", "done"} =>
        \A id \in Ids :
            /\ id \in SeqToSet(movie_ids) <=> RowCount(id) + (IF InFailed(id) THEN 1 ELSE 0) = 1
            /\ Cardinality({i \in 1..Len(failed_ids) : failed_ids[i] = id}) <= 1
            /\ RowCount(id) = 1 <=> (Done(id) /\ api_data[id].t = "dict")
            /\ InFailed(id) <=> (Done(id) /\ api_data[id] = None)

\* C7: the failure of one task (a fetch that returned None, or an exception
\* raised in its fetch or transform step) never takes main() out of the
\* collecting loop: no exception of a task propagates out of main().
C7_TaskFailureContained ==
    \A id \in Ids :
        (Done(id) /\ (IsRaised(task_result[id]) \/ api_data[id] = None)) =>
            (pc # "crashed" /\ uncaught = None)

IdOfCell(cell) == CHOOSE id \in Ids : ToString(id) = cell

\* C8: the rows written by write_failed_ids are the header, then one
\* "fetch-failed" row with empty RowNumber per element of failed_ids in
\* ascending order of identifier, then one row per skip record in the order
\* of skipped_rows with its raw value, reason and row number.
C8_FailureStreamOrder ==
    dlq_file.t = "csv" =>
        LET rows == dlq_file.rows
            nf == Len(failed_ids)
            ns == Len(skipped_rows)
        IN /\ Len(rows) = 1 + nf + ns
           /\ rows[1] = <<"ID", "Reason", "RowNumber">>
           /\ \A i \in 1..nf : rows[1 + i][2] = "fetch-failed" /\ rows[1 + i][3] = ""
           /\ \A id \in Ids :
                  Cardinality({i \in 1..nf : rows[1 + i][1] = ToString(id)})
                      = Cardinality({i \in 1..nf : failed_ids[i] = id})
           /\ \A i, j \in 1..nf :
                  i < j => IdOfCell(rows[1 + i][1]) <= IdOfCell(rows[1 + j][1])
           /\ \A k \in 1..ns :
                  rows[1 + nf + k] = <<skipped_rows[k].raw_value,
                                       skipped_rows[k].reason,
                                       ToString(skipped_rows[k].row_number)>>

C8_Witness ==
    /\ dlq_file.t = "csv"
    /\ Len(failed_ids) >= 2
    /\ failed_ids[1] > failed_ids[2]
    /\ Len(skipped_rows) >= 2

\* C9: every run that got past configuration and has ended has emitted the
\* final summary.
C9_SummaryAlwaysEmitted ==
    pc \in {"returned", "done", "crashed"} => summary.t = "summary"

\* C10: the reported throughput is the number of submitted identifiers
\* divided by the elapsed seconds when these are positive and 0 otherwise,
\* and no division by zero happens.
C10_Throughput ==
    /\ uncaught # Raised("ZeroDivisionError")
    /\ summary.t = "summary" =>
          LET submitted == Cardinality({id \in Ids : task_state[id] # "none"})
          IN /\ summary.elapsed > 0 => summary.rate = Float(submitted, summary.elapsed)
             /\ summary.elapsed <= 0 => summary.rate = Float(0, 1)

C10_Witness ==
    /\ summary.t = "summary"
    /\ summary.elapsed = 0
    /\ summary.total_attempted >= 2
    /\ summary.rate = Float(0, 1)

\* A direct make_movie_row call has returned; the record has a genres list.
RowCallDone == call_args.t = "make_movie_row" /\ call_result # NotCalled
GenresIsList(record) == record.t = "dict" /\ record.genres.t = "list"

\* C11: for every record whose genres field is a sequence, make_movie_row
\* returns a row whose genres are in ascending code point order and whose
\* is_action flag is true exactly when "Action" is one of them.
C11_GenresSortedAndFlagged ==
    (RowCallDone /\ GenresIsList(call_args.api_data)) =>
        /\ call_result.t = "MovieRow"
        /\ \A i, j \in 1..Len(call_result.genres) :
             i < j => Rank(call_result.genres[i]) <= Rank(call_result.genres[j])
        /\ call_result.is_action <=>
             (\E i \in 1..Len(call_result.genres) : call_result.genres[i] = "Action")

C11_Witness ==
    /\ RowCallDone
    /\ GenresIsList(call_args.api_data)
    /\ Len(call_args.api_data.genres.v) = 3
    /\ call_args.api_data.genres.v[1] = Genre(Str("action"))
    /\ call_args.api_data.genres.v[2] = Genre(Str("Drama"))
    /\ call_args.api_data.genres.v[3] = Genre(Str(" Action "))
    /\ call_result.t = "MovieRow"
    /\ call_result.genres = <<"Action", "Drama", "action">>
    /\ call_result.is_action

\* A genre entry that is an object with a non-empty name; the records for
\* which make_movie_row is specified to be total.
WellFormedGenre(g) == g.t = "dict" /\ g.name.t = "str" /\ g.name.v # ""
TotalDomain(record) ==
    \/ record = None
    \/ record.t = "dict" /\ record.genres.t \in {"missing", "list"}

\* C12: for no record, an empty document, a populated document and a
\* document whose genres list has malformed entries, make_movie_row returns a
\* row with the given id and never raises; no record gives the default row,
\* and the genres are exactly the names of the well-formed entries.
C12_TransformTotal ==
    (RowCallDone /\ TotalDomain(call_args.api_data)) =>
        LET record == call_args.api_data
        IN /\ call_result.t = "MovieRow"
           /\ call_result.id = call_args.movie_id
           /\ record \in {None, EmptyDoc} =>
                call_result = MovieRow(call_args.movie_id, "", None, <<>>, FALSE)
           /\ GenresIsList(record) =>
                /\ Len(call_result.genres) =
                     Cardinality({i \in 1..Len(record.genres.v) :
                                     WellFormedGenre(record.genres.v[i])})
                /\ \A k \in 1..Len(call_result.genres) :
                     \E i \in 1..Len(record.genres.v) :
                        /\ WellFormedGenre(record.genres.v[i])
                        /\ Strip(record.genres.v[i].name.v) = call_result.genres[k]

C12_Witness ==
    /\ RowCallDone
    /\ GenresIsList(call_args.api_data)
    /\ Len(call_args.api_data.genres.v) = 3
    /\ call_args.api_data.genres.v[1] = None
    /\ call_args.api_data.genres.v[2] = Genre(Missing)
    /\ call_args.api_data.genres.v[3] = Genre(Str("Drama"))
    /\ call_result.t = "MovieRow"
    /\ call_result.genres = <<"Drama">>

\* write_excel ran into a handled error.
ExcelFailed == excel_outcome \in {"save-failed", "replace-failed"}

\* C13: write_excel publishes atomically: output_path only ever holds what it
\* held before the call or the completely saved workbook of the call, and
\* when workbook.save or os.replace fails with a handled error the call
\* returns without raising, output_path is as before and temp_path is gone.
C13_ExcelAtomic ==
    /\ excel_outcome # "none" =>
         fs.output \in {output_before, Workbook(excel_rows.rows, TRUE)}
    /\ excel_outcome = "published" =>
         fs = FileSystem(Workbook(excel_rows.rows, TRUE), Absent)
    /\ ExcelFailed =>
         /\ fs = FileSystem(output_before, Absent)
         /\ pc \in {"write_failed", "summary", "done"}
         /\ uncaught = None

C13_Witness ==
    /\ excel_outcome = "replace-failed"
    /\ output_before = EarlierReport
    /\ fs = FileSystem(EarlierReport, Absent)
    /\ Len(excel_rows.rows) = 2
    /\ pc = "done"

\* A direct reader call has returned; the integer a line stands for, the
\* valid identifiers of a file, and the first line standing for one.
ReaderCallDone == call_args.t = "read_movie_ids_with_skips" /\ call_result # NotCalled
ValueOf(line) == ParseInt(StripCell(line))
ValidValues(lines) ==
    {ValueOf(lines[k]).v : k \in {j \in 1..Len(lines) :
                                     /\ ~IsRaised(ValueOf(lines[j]))
                                     /\ ValueOf(lines[j]).v > 0}}
FirstValid(lines, v) ==
    CHOOSE k \in 1..Len(lines) :
        /\ ValueOf(lines[k]) = Num(v)
        /\ \A j \in 1..(k - 1) : ValueOf(lines[j]) # Num(v)

\* C14: the identifier list returned by read_movie_ids_with_skips holds only
\* positive integers, none twice, and every valid identifier of the file in
\* the order of its first valid occurrence.
C14_IdsPositiveUniqueOrdered ==
    ReaderCallDone =>
        LET ids == call_result.movie_ids
            lines == call_args.file.rows
        IN /\ \A i \in 1..Len(ids) : ids[i] \in Nat /\ ids[i] > 0
           /\ \A i, j \in 1..Len(ids) : i # j => ids[i] # ids[j]
           /\ SeqToSet(ids) = ValidValues(lines)
           /\ \A i, j \in 1..Len(ids) :
                i < j => FirstValid(lines, ids[i]) < FirstValid(lines, ids[j])

C14_Witness ==
    /\ ReaderCallDone
    /\ call_args.file.rows = <<"2", " 1 ", "01", "2">>
    /\ call_result.movie_ids = <<2, 1>>

\* The outcome the loop has for row k of rows, and the statement that the
\* result accounts for every row, the skip entries carrying the raw cell or
\* the cell with surrounding white space stripped.
ReasonOf(rows, k) ==
    LET value == ValueOf(rows[k])
    IN IF StripCell(rows[k]) = "" THEN "blank"
       ELSE IF IsRaised(value) THEN "non-numeric"
       ELSE IF value.v <= 0 THEN "non-positive"
       ELSE IF \E j \in 1..(k - 1) : ValueOf(rows[j]) = value THEN "duplicate"
       ELSE "accepted"
EntryText(cell, stripped) == IF stripped THEN StripCell(cell) ELSE cell
RowsAccounted(stripped) ==
    ReaderCallDone =>
        LET rows == DictReaderRows(call_args.file.rows)
            skipped == call_result.skipped
            Rejected == {k \in 1..Len(rows) : ReasonOf(rows, k) # "accepted"}
            Nth(m) == CHOOSE k \in Rejected :
                         Cardinality({j \in Rejected : j <= k}) = m
        IN /\ Len(skipped) = Cardinality(Rejected)
           /\ Len(call_result.movie_ids) + Len(skipped) = Len(rows)
           /\ \A m \in 1..Len(skipped) :
                skipped[m] = Skip(EntryText(rows[Nth(m)], stripped),
                                  Nth(m) + 1, ReasonOf(rows, Nth(m)))

C16_NoSleepAfterFinalAttempt ==
    \A id \in Ids :
        Done(id) => Len(waits[id]) = requests[id] - 1

\* C17: make_movie_row is never called with an absent record: a task whose
\* fetch returned None returns (None, id) without a row (a make_movie_row
\* call would have produced a row or raised), its identifier goes to
\* failed_ids when collected, and no row of rows or of the write_excel call
\* belongs to such an identifier.
C17_NoTransformOfAbsentRecord ==
    /\ \A id \in Ids :
         (Done(id) /\ api_data[id] = None) =>
            /\ task_result[id] = Returned(None, id)
            /\ RowCount(id) = 0
            /\ id \in collected => InFailed(id)
    /\ \A i \in 1..Len(movie_rows) : api_data[movie_rows[i].id] # None
    /\ excel_rows # NotCalled =>
         \A i \in 1..Len(excel_rows.rows) : api_data[excel_rows.rows[i].id] # None

C17_Witness ==
    /\ pc = "done"
    /\ movie_ids = <<1, 2>>
    /\ api_data[1] = None
    /\ last_outcome[1].class = "not_found"
    /\ failed_ids = <<1>>
    /\ Len(excel_rows.rows) = 1
    /\ excel_rows.rows[1].id = 2

\* What the fixed inputs of a run (identifier list, skip list, the record or
\* None each fetch returned) determine, with no reference to the order in
\* which the tasks completed: the rows and the failed identifiers of the
\* identifiers up to n, in ascending order.
RECURSIVE RowsUpTo(_)
RowsUpTo(n) ==
    IF n = 0 THEN <<>>
    ELSE RowsUpTo(n - 1)
         \o (IF n \in SeqToSet(movie_ids) /\ Truthy(api_data[n])
             THEN <<make_movie_row(n, api_data[n])>> ELSE <<>>)

RECURSIVE FailedUpTo(_)
FailedUpTo(n) ==
    IF n = 0 THEN <<>>
    ELSE FailedUpTo(n - 1)
         \o (IF n \in SeqToSet(movie_ids) /\ ~Truthy(api_data[n])
             THEN <<n>> ELSE <<>>)

\* C18: the outputs do not depend on scheduling: the rows handed to
\* write_excel and the failure stream written by write_failed_ids are
\* functions of the identifier list, the skip list and the per-identifier
\* fetch outcomes alone, so any two completion orders give the same outputs.
C18_OutputsIndependentOfSchedule ==
    /\ excel_rows # NotCalled => excel_rows.rows = RowsUpTo(MaxId)
    /\ dlq_file # NotCalled =>
         dlq_file = CsvRows(<<<<"ID", "Reason", "RowNumber">>>>
                            \o FailedRows(FailedUpTo(MaxId))
                            \o SkipRows(skipped_rows))
    /\ pc \in {"summary", "done"} =>
         /\ excel_rows = NotCalled <=> RowsUpTo(MaxId) = <<>>
         /\ dlq_file = NotCalled <=> (FailedUpTo(MaxId) = <<>> /\ skipped_rows = <<>>)

C18_Witness ==
    /\ pc = "done"
    /\ movie_ids = <<1, 2>>
    /\ failed_ids = <<2, 1>>
    /\ dlq_file # NotCalled
    /\ Len(dlq_file.rows) = 3

\* The parts of C19 about the tasks: no identifier is requested more than
\* N + 1 times, and every submitted task ends.
C19_AttemptsBounded ==
    \A id \in Ids : requests[id] <= max_retry_attempts + 1
C19_TasksEnd ==
    \A id \in Ids : (task_state[id] = "queued") ~> Done(id)

\* C19: under fair scheduling no identifier is requested more than N + 1
\* times, every submitted task reaches a terminal outcome, and main()
\* eventually leaves the collecting loop having collected one completion
\* per submitted identifier.
C19_TerminationAndCollection ==
    /\ []C19_AttemptsBounded
    /\ C19_TasksEnd
    /\ (pc = "collecting") ~>
           (pc = "write_excel" /\ collected = SeqToSet(movie_ids))

\* C20: counting retries from 0, the sleep before retry k of a fetch has the
\* base delay initial_backoff_seconds * 2^k, twice that of the retry before,
\* and time.sleep is called with the base delay plus a jitter between 0 and
\* 0.5 seconds.
C20_BackoffDoubles ==
    \A id \in Ids :
        task_state[id] # "none" =>
            /\ Len(time_sleep.calls) = Len(waits[id])
            /\ \A k \in 0..(Len(waits[id]) - 1) :
                 /\ waits[id][k + 1] = DefaultInitialBackoff * (2 ^ k)
                 /\ k > 0 => waits[id][k + 1] = 2 * waits[id][k]
                 /\ time_sleep.calls[k + 1] - 100 * waits[id][k + 1] \in 0..JitterMax

C20_Witness ==
    \E id \in Ids :
        /\ Done(id)
        /\ last_outcome[id].class = "ok"
        /\ waits[id] = <<1, 2, 4>>
        /\ time_sleep.calls = <<100, 225, 450>>

\* C21: in every run that got past configuration and has ended, every skip
\* record of the reader is a row of the written failure stream, also when
\* no valid identifier was read.
C21_SkipsReachFailureStream ==
    pc \in {"returned", "done", "crashed"} =>
        \A i \in 1..Len(skipped_rows) :
            /\ dlq_file.t = "csv"
            /\ \E j \in 1..Len(dlq_file.rows) :
                 dlq_file.rows[j] = <<skipped_rows[i].raw_value,
                                      skipped_rows[i].reason,
                                      ToString(skipped_rows[i].row_number)>>

\* C22: for every file, read_movie_ids returns the identifier list that
\* read_movie_ids_with_skips returns for it, same elements in the same order.
C22_ReadersAgree ==
    (call_args.t = "read_movie_ids" /\ call_result # NotCalled) =>
        call_result = List(read_movie_ids_with_skips(call_args.file).movie_ids)

C22_Witness ==
    /\ call_args.t = "read_movie_ids"
    /\ call_args.file.rows = <<"2", "0", " 1 ", "01">>
    /\ call_result = List(<<2, 1>>)
    /\ Len(read_movie_ids_with_skips(call_args.file).skipped) = 2

\* C23: when the write of the failure log fails with an OSError,
\* write_failed_ids returns without raising and output_path holds either
\* the complete new log or what it held before the call.
C23_NoPartialFailureLog ==
    dlq_outcome \in {"open-error", "write-error"} =>
        /\ uncaught = None
        /\ dlq_file \in {dlq_before, write_failed_ids(failed_ids, skipped_rows)}

====
